---- MODULE Spec2Model ----
(***************************************************************************)
(* Flow construction of atomate2's common EOS and Grueneisen makers:       *)
(*   src/src/atomate2/common/flows/eos.py        CommonEosMaker.make       *)
(*   src/src/atomate2/common/flows/gruneisen.py  BaseGruneisenMaker.make   *)
(*                                                                         *)
(* A builder is drawn in Init; one call of make() is executed statement    *)
(* block by statement block (pc is the position inside make()).  Jobs are  *)
(* records carrying a uuid; a symbolic output reference is a record        *)
(* [uuid, attributes] as jobflow's OutputReference is.                     *)
(*                                                                         *)
(* Strain values are exact rationals measured in units of 1e-15, so that   *)
(* the tolerance of eos.py:133 is the rational 1; float rounding is not    *)
(* modelled.  NaN (numpy's undefined linspace step) is a value of its own. *)
(***************************************************************************)
EXTENDS Integers, Sequences, FiniteSets, TLC

----------------------------------------------------------------------------
(* Bounds of the model *)

\* number_of_frames ranges over 0..MaxFrames
MaxFrames == 5
\* both ends of linear_strain range over -MaxStrain..MaxStrain (units of 1e-15)
MaxStrain == 2
\* postprocessor.min_data_points ranges over 1..MaxMinPoints
MaxMinPoints == 3

----------------------------------------------------------------------------
(* Exact rational arithmetic with NaN, standing for numpy float arithmetic *)

RECURSIVE Gcd(_, _)
Gcd(x, y) == IF y = 0 THEN x ELSE Gcd(y, x % y)

Abs(x) == IF x < 0 THEN -x ELSE x

NaN == [n |-> 0, d |-> 0]

IsNaN(r) == r.d = 0

\* n/d in lowest terms with a positive denominator; anything over 0 is NaN
Rat(n, d) ==
    IF d = 0 THEN NaN
    ELSE LET g == Gcd(Abs(n), Abs(d))
             s == IF d < 0 THEN -1 ELSE 1
         IN  [n |-> (s * n) \div g, d |-> (s * d) \div g]

RAdd(x, y) == IF IsNaN(x) \/ IsNaN(y) THEN NaN
              ELSE Rat(x.n * y.d + y.n * x.d, x.d * y.d)

RSub(x, y) == IF IsNaN(x) \/ IsNaN(y) THEN NaN
              ELSE Rat(x.n * y.d - y.n * x.d, x.d * y.d)

RMul(x, y) == IF IsNaN(x) \/ IsNaN(y) THEN NaN
              ELSE Rat(x.n * y.n, x.d * y.d)

\* float division by an exact value; x/0 is not produced by the code modelled
RDiv(x, y) == IF IsNaN(x) \/ IsNaN(y) THEN NaN
              ELSE Rat(x.n * y.d, x.d * y.n)

RAbs(x) == IF IsNaN(x) THEN NaN ELSE [n |-> Abs(x.n), d |-> x.d]

\* comparisons with NaN are False, as for floats
RLess(x, y) == ~IsNaN(x) /\ ~IsNaN(y) /\ x.n * y.d < y.n * x.d

RInt(k) == [n |-> k, d |-> 1]

\* np.linspace(start, stop, num, retstep=True): num samples start + i*step, the
\* last one set to stop; the step is NaN when num <= 1
LinspaceStep(start, stop, num) ==
    IF num - 1 > 0 THEN RDiv(RSub(stop, start), RInt(num - 1)) ELSE NaN

\* mutant of Linspace: the samples of endpoint=False, stop itself left out
LinspaceWithoutEndpoint(start, stop, num) ==
    [i \in 1..num |->
        RAdd(start, RMul(RInt(i - 1), RDiv(RSub(stop, start), RInt(num))))]

Linspace(start, stop, num) ==
    [i \in 1..num |->
        IF num > 1 /\ i = num THEN stop
        ELSE IF num - 1 > 0
             THEN RAdd(start, RMul(RInt(i - 1), LinspaceStep(start, stop, num)))
             ELSE RAdd(start, RMul(RInt(i - 1), RSub(stop, start)))]

----------------------------------------------------------------------------
(* Symbolic references and jobs (jobflow) *)

\* job.output followed by attribute / index accesses
Ref(uuid, attributes) == [uuid |-> uuid, attributes |-> attributes]

\* a value passed in by the caller or read from self: no job produces it
Raw(name) == [uuid |-> 0, attributes |-> <<name>>]

IsRef(v) == v.uuid # 0

Job(uuid, name, maker, args) ==
    [uuid |-> uuid, name |-> name, maker |-> maker, args |-> args,
     function_kwargs |-> [k \in {} |-> ""]]

EmptyFlow == [jobs |-> <<>>, output |-> Raw("None"), name |-> ""]

----------------------------------------------------------------------------
(* Configurations: the dataclass fields of the two makers *)

\* eos.py:55-62.  A Maker field holds TRUE when a Maker is configured and FALSE
\* when it is None; min_data_points is the attribute of the configured
\* postprocessor (1 when there is none, to keep one record per configuration).
\* eos_relax_maker is required and always configured.  What a Maker returns is
\* one node of the graph, a Job: the renaming of the inner jobs of a returned
\* Flow (eos.py:98-103, 162-167) changes names only and is left out.
\* has_write_additional_data tells whether eos_relax_maker has the attribute
\* write_additional_data (a dict); it is only read when
\* store_transformation_information is set, and is TRUE otherwise.
EosConfigs ==
    { c \in [name : {"EOS Maker"},
             initial_relax_maker : BOOLEAN,
             static_maker : BOOLEAN,
             linear_strain : (-MaxStrain..MaxStrain) \X (-MaxStrain..MaxStrain),
             number_of_frames : 0..MaxFrames,
             postprocessor : BOOLEAN,
             min_data_points : 1..MaxMinPoints,
             store_transformation_information : BOOLEAN,
             has_write_additional_data : BOOLEAN] :
        /\ ~c.postprocessor => c.min_data_points = 1
        /\ ~c.store_transformation_information => c.has_write_additional_data }

NoEos ==
    [name |-> "EOS Maker", initial_relax_maker |-> FALSE, static_maker |-> FALSE,
     linear_strain |-> <<0, 0>>, number_of_frames |-> 0, postprocessor |-> FALSE,
     min_data_points |-> 1, store_transformation_information |-> FALSE,
     has_write_additional_data |-> TRUE]

\* gruneisen.py:72-81
GruConfigs ==
    [name : {"Gruneisen"},
     bulk_relax_maker : BOOLEAN,
     const_vol_relax_maker : BOOLEAN,
     phonon_maker : BOOLEAN]

NoGru ==
    [name |-> "Gruneisen", bulk_relax_maker |-> FALSE,
     const_vol_relax_maker |-> FALSE, phonon_maker |-> FALSE]

----------------------------------------------------------------------------
VARIABLES
    builder,        \* "eos" or "gruneisen": the maker whose make() runs
    eos,            \* self of CommonEosMaker
    gru,            \* self of BaseGruneisenMaker
    write_additional_data,  \* self.eos_relax_maker.write_additional_data
    pc,             \* position inside make()
    next_uuid,      \* uuid of the next job created
    raised,         \* the exception that left make(), "" when none
    flow,           \* the Flow returned
    \* locals of CommonEosMaker.make
    jobs, flow_output, structure, prev_dir, strain_l, strain_delta,
    deformation_l, transformations, frame_idx,
    \* locals of BaseGruneisenMaker.make
    gjobs, opt_struct, bulk, struct_dict, phonon_yaml_dirs,
    phonon_imaginary_modes, st_idx, get_gru

cfgVars == <<builder, eos, gru>>
eosVars == <<jobs, flow_output, structure, prev_dir, strain_l, strain_delta,
             deformation_l, transformations, frame_idx>>
gruVars == <<gjobs, opt_struct, bulk, struct_dict, phonon_yaml_dirs,
             phonon_imaginary_modes, st_idx, get_gru>>
vars == <<cfgVars, write_additional_data, pc, next_uuid, raised, flow,
          eosVars, gruVars>>

----------------------------------------------------------------------------
(* CommonEosMaker.make, eos.py *)

Quantities == {"energy", "volume", "stress", "structure", "dir_name"}

\* eos.py:80-82
job_types(self) == IF self.static_maker THEN <<"relax", "static">> ELSE <<"relax">>

SeqRange(s) == {s[i] : i \in DOMAIN s}

\* eos.py:78
EmptyJobs == [key \in {"relax", "static", "utility"} |-> <<>>]

\* mutant of EmptyFlowOutput: a static entry whether or not statics are run
EmptyFlowOutputOfBothTypes(self) ==
    [key \in {"relax", "static"} |-> [quantity \in Quantities |-> <<>>]]

\* eos.py:83-89
EmptyFlowOutput(self) ==
    [key \in SeqRange(job_types(self)) |-> [quantity \in Quantities |-> <<>>]]

\* eos.py:104-107 and 117-120
EquilibriumOutput(uuid) ==
    [E0 |-> Ref(uuid, <<"output", "energy">>),
     V0 |-> Ref(uuid, <<"structure", "volume">>)]

\* eos.py:133: |eps| < 1e-15, in units of 1e-15
ZeroTol == RInt(1)

ZeroStrainMask(strain) ==
    {i \in DOMAIN strain : RLess(RAbs(strain[i]), ZeroTol)}

\* mutant of Shift: the step is not divided among the samples near zero
ShiftByWholeStep(delta, nzs) ==
    [j \in 1..nzs |-> RMul(delta, Linspace(RInt(-1), RInt(1), nzs)[j])]

\* eos.py:136
Shift(delta, nzs) ==
    [j \in 1..nzs |->
        RMul(RDiv(delta, RInt(nzs + 1)), Linspace(RInt(-1), RInt(1), nzs)[j])]

\* eos.py:130-137: the j-th sample inside the mask receives shift[j]
PerturbZeroStrain(strain, delta) ==
    LET mask == ZeroStrainMask(strain)
        nzs == Cardinality(mask)
        rank(i) == Cardinality({k \in mask : k <= i})
    IN  IF mask # {}
        THEN [i \in DOMAIN strain |->
                IF i \in mask THEN RAdd(strain[i], Shift(delta, nzs)[rank(i)])
                ELSE strain[i]]
        ELSE strain

\* a float written as one + eps * 1e-15, with one an integer
Num(one, eps) == [one |-> one, eps |-> eps]

\* eos.py:139: (np.identity(3) * (1.0 + eps)).tolist()
Deformation(eps) ==
    [r \in 1..3 |-> [c \in 1..3 |->
        IF IsNaN(eps) THEN Num(0, NaN)
        ELSE IF r = c THEN Num(1, eps) ELSE Num(0, RInt(0))]]

\* mutant of Collect: the directory of the job is not collected
CollectWithoutDirName(out, job) ==
    [out EXCEPT
        !["energy"] = Append(@, Ref(job.uuid, <<"output", "energy">>)),
        !["volume"] = Append(@, Ref(job.uuid, <<"output", "structure", "volume">>)),
        !["stress"] = Append(@, Ref(job.uuid, <<"output", "stress">>)),
        !["structure"] = Append(@, Ref(job.uuid, <<"output", "structure">>))]

\* eos.py:182-186
Collect(out, job) ==
    [out EXCEPT
        !["energy"] = Append(@, Ref(job.uuid, <<"output", "energy">>)),
        !["volume"] = Append(@, Ref(job.uuid, <<"output", "structure", "volume">>)),
        !["stress"] = Append(@, Ref(job.uuid, <<"output", "stress">>)),
        !["structure"] = Append(@, Ref(job.uuid, <<"output", "structure">>)),
        !["dir_name"] = Append(@, Ref(job.uuid, <<"dir_name">>))]

\* eos.py:179-186 for one key
RECURSIVE CollectAll(_, _, _)
CollectAll(out, js, idx) ==
    IF idx > Len(js) THEN out
    ELSE CollectAll(Collect(out, js[idx]), js, idx + 1)

\* mutant of JobList: the utility jobs listed first
JobListUtilityFirst(js) == js["utility"] \o js["relax"] \o js["static"]

\* mutant of JobList: the utility jobs left out of the flow
JobListWithoutUtility(js) == js["relax"] \o js["static"]

\* eos.py:202-204: the values of the jobs dict in insertion order (eos.py:78)
JobList(js) == js["relax"] \o js["static"] \o js["utility"]

\* a value no statement has assigned yet
Unbound == Raw("unbound")

NoDict == [key \in {} |-> <<>>]

\* eos_relax_maker.write_additional_data as the caller configured it
NoData == [k \in {} |-> Unbound]

Branches == <<"ground", "plus", "minus">>

NoneOfEach == [b \in SeqRange(Branches) |-> Raw("None")]

Init ==
    /\ \/ builder = "eos" /\ eos \in EosConfigs /\ gru = NoGru
       \/ builder = "gruneisen" /\ gru \in GruConfigs /\ eos = NoEos
    /\ write_additional_data = NoData
    /\ pc = "start"
    /\ next_uuid = 1
    /\ raised = ""
    /\ flow = EmptyFlow
    /\ jobs = EmptyJobs
    /\ flow_output = NoDict
    /\ structure = Raw("structure")
    /\ prev_dir = Raw("prev_dir")
    /\ strain_l = <<>>
    /\ strain_delta = NaN
    /\ deformation_l = <<>>
    /\ transformations = 0
    /\ frame_idx = 0
    /\ gjobs = <<>>
    /\ opt_struct = NoneOfEach
    /\ bulk = 0
    /\ struct_dict = 0
    /\ phonon_yaml_dirs = NoneOfEach
    /\ phonon_imaginary_modes = NoneOfEach
    /\ st_idx = 1
    /\ get_gru = 0

\* eos.py:78-121: the locals and the optional equilibrium relaxation / static
EosInitialRelax ==
    /\ builder = "eos" /\ pc = "start"
    /\ LET relax_flow ==
               Job(next_uuid, "EOS equilibrium relaxation", "initial_relax_maker",
                   [structure |-> structure, prev_dir |-> prev_dir])
           relaxed == Ref(next_uuid, <<"structure">>)
           relaxed_dir == Ref(next_uuid, <<"dir_name">>)
           equil_static ==
               Job(next_uuid + 1, "EOS equilibrium static", "static_maker",
                   [structure |-> relaxed, prev_dir |-> relaxed_dir])
       IN  IF eos.initial_relax_maker
           THEN /\ structure' = relaxed
                /\ prev_dir' = relaxed_dir
                /\ IF eos.static_maker
                   THEN /\ flow_output' =
                              EmptyFlowOutput(eos)
                              @@ ("initial_relax" :> EquilibriumOutput(next_uuid))
                              @@ ("initial_static" :> EquilibriumOutput(next_uuid + 1))
                        /\ jobs' = [EmptyJobs EXCEPT !["relax"] = <<relax_flow>>,
                                                     !["static"] = <<equil_static>>]
                        /\ next_uuid' = next_uuid + 2
                   ELSE /\ flow_output' =
                              EmptyFlowOutput(eos)
                              @@ ("initial_relax" :> EquilibriumOutput(next_uuid))
                        /\ jobs' = [EmptyJobs EXCEPT !["relax"] = <<relax_flow>>]
                        /\ next_uuid' = next_uuid + 1
           ELSE /\ flow_output' = EmptyFlowOutput(eos)
                /\ jobs' = EmptyJobs
                /\ UNCHANGED <<structure, prev_dir, next_uuid>>
    /\ pc' = "strain"
    /\ UNCHANGED <<cfgVars, write_additional_data, raised, flow, gruVars,
                   strain_l, strain_delta, deformation_l, transformations,
                   frame_idx>>

\* eos.py:123-128
LinearStrain(self) ==
    Linspace(RInt(self.linear_strain[1]), RInt(self.linear_strain[2]),
             self.number_of_frames)

StrainDelta(self) ==
    LinspaceStep(RInt(self.linear_strain[1]), RInt(self.linear_strain[2]),
                 self.number_of_frames)

\* eos.py:123-137: the strain samples handed on to the deformations
StrainSamples(self) ==
    IF self.initial_relax_maker
    THEN PerturbZeroStrain(LinearStrain(self), StrainDelta(self))
    ELSE LinearStrain(self)

\* eos.py:123-139
EosStrain ==
    /\ builder = "eos" /\ pc = "strain"
    /\ strain_delta' = StrainDelta(eos)
    /\ strain_l' = StrainSamples(eos)
    /\ deformation_l' = [i \in DOMAIN strain_l' |-> Deformation(strain_l'[i])]
    /\ pc' = "apply_strain"
    /\ UNCHANGED <<cfgVars, write_additional_data, next_uuid, raised, flow,
                   gruVars, jobs, flow_output, structure, prev_dir,
                   transformations, frame_idx>>

\* eos.py:141-143
EosApplyStrain ==
    /\ builder = "eos" /\ pc = "apply_strain"
    /\ transformations' = next_uuid
    /\ jobs' = [jobs EXCEPT !["utility"] =
                   @ \o <<Job(next_uuid, "apply_strain_to_structure",
                              "apply_strain_to_structure",
                              [structure |-> structure,
                               deformations |-> deformation_l])>>]
    /\ next_uuid' = next_uuid + 1
    /\ frame_idx' = 0
    /\ pc' = "frames"
    /\ UNCHANGED <<cfgVars, write_additional_data, raised, flow, gruVars,
                   flow_output, structure, prev_dir, strain_l, strain_delta,
                   deformation_l>>

\* eos.py:157-161
FrameRelaxJob(uuid, trans, idx, dir) ==
    Job(uuid, "eos_relax_maker deformation " \o ToString(idx), "eos_relax_maker",
        [structure |-> Ref(trans, <<ToString(idx), "final_structure">>),
         prev_dir |-> dir])

\* eos.py:171-175
FrameStaticJob(uuid, relax_uuid, idx) ==
    Job(uuid, "static_maker " \o ToString(idx), "static_maker",
        [structure |-> Ref(relax_uuid, <<"structure">>),
         prev_dir |-> Ref(relax_uuid, <<"dir_name">>)])

\* mutant of StoreTransformation: the transformation is stored whatever
\* _store_transformation_information is
StoreTransformationRegardless(self, data, trans, idx) ==
    IF self.has_write_additional_data
    THEN ("transformations:json" :> Ref(trans, <<ToString(idx)>>)) @@ data
    ELSE data

\* eos.py:146-155: the entry written into eos_relax_maker.write_additional_data;
\* a maker without that attribute raises inside contextlib.suppress(Exception)
\* and nothing is written
StoreTransformation(self, data, trans, idx) ==
    IF self.store_transformation_information /\ self.has_write_additional_data
    THEN ("transformations:json" :> Ref(trans, <<ToString(idx)>>)) @@ data
    ELSE data

\* eos.py:145-176: one iteration of the frame loop
EosFrame ==
    /\ builder = "eos" /\ pc = "frames"
    /\ frame_idx < eos.number_of_frames
    /\ write_additional_data' =
          StoreTransformation(eos, write_additional_data, transformations,
                              frame_idx)
    /\ IF eos.static_maker
       THEN /\ jobs' = [jobs EXCEPT
                          !["relax"] = Append(@, FrameRelaxJob(next_uuid,
                                          transformations, frame_idx, prev_dir)),
                          !["static"] = Append(@, FrameStaticJob(next_uuid + 1,
                                          next_uuid, frame_idx))]
            /\ next_uuid' = next_uuid + 2
       ELSE /\ jobs' = [jobs EXCEPT
                          !["relax"] = Append(@, FrameRelaxJob(next_uuid,
                                          transformations, frame_idx, prev_dir))]
            /\ next_uuid' = next_uuid + 1
    /\ frame_idx' = frame_idx + 1
    /\ UNCHANGED <<cfgVars, pc, raised, flow, gruVars, flow_output, structure,
                   prev_dir, strain_l, strain_delta, deformation_l,
                   transformations>>

\* eos.py:178-186: after the last frame, gather the outputs per job type
EosCollect ==
    /\ builder = "eos" /\ pc = "frames"
    /\ frame_idx >= eos.number_of_frames
    /\ flow_output' =
          [key \in DOMAIN flow_output |->
              IF key \in SeqRange(job_types(eos))
              THEN CollectAll(flow_output[key], jobs[key], 1)
              ELSE flow_output[key]]
    /\ pc' = "postprocess"
    /\ UNCHANGED <<cfgVars, write_additional_data, next_uuid, raised, flow,
                   gruVars, jobs, structure, prev_dir, strain_l, strain_delta,
                   deformation_l, transformations, frame_idx>>

\* eos.py:190
TooFewPoints(self, js) == Len(js["relax"]) < self.min_data_points

\* eos.py:188-200: raise on too few data points, else add the fit (if any)
EosPostprocess ==
    /\ builder = "eos" /\ pc = "postprocess"
    /\ IF eos.postprocessor
       THEN IF TooFewPoints(eos, jobs)
            THEN /\ raised' = "ValueError"
                 /\ pc' = "raised"
                 /\ UNCHANGED <<jobs, flow_output, next_uuid>>
            ELSE /\ jobs' = [jobs EXCEPT !["utility"] =
                               @ \o <<Job(next_uuid, eos.name \o " postprocessing",
                                          "postprocessor",
                                          [output |-> flow_output])>>]
                 /\ flow_output' = Ref(next_uuid, <<>>)
                 /\ next_uuid' = next_uuid + 1
                 /\ pc' = "assemble"
                 /\ UNCHANGED raised
       ELSE /\ pc' = "assemble"
            /\ UNCHANGED <<jobs, flow_output, next_uuid, raised>>
    /\ UNCHANGED <<cfgVars, write_additional_data, flow, gruVars, structure,
                   prev_dir, strain_l, strain_delta, deformation_l,
                   transformations, frame_idx>>

\* eos.py:202-206
EosReturn ==
    /\ builder = "eos" /\ pc = "assemble"
    /\ flow' = [jobs |-> JobList(jobs), output |-> flow_output, name |-> eos.name]
    /\ pc' = "returned"
    /\ UNCHANGED <<cfgVars, write_additional_data, next_uuid, raised, eosVars,
                   gruVars>>

----------------------------------------------------------------------------
(* BaseGruneisenMaker.make, gruneisen.py *)

\* gruneisen.py:96-108: the optional bulk relaxation; bulk stays unbound (0)
\* when no bulk_relax_maker is configured
GruBulkRelax ==
    /\ builder = "gruneisen" /\ pc = "start"
    /\ IF gru.bulk_relax_maker
       THEN /\ bulk' = next_uuid
            /\ gjobs' = <<Job(next_uuid, "bulk_relax_maker", "bulk_relax_maker",
                              [structure |-> Raw("structure")])>>
            /\ opt_struct' = [b \in SeqRange(Branches) |->
                                IF b = "ground" THEN Ref(next_uuid, <<"structure">>)
                                ELSE Raw("None")]
            /\ next_uuid' = next_uuid + 1
       ELSE /\ opt_struct' = [b \in SeqRange(Branches) |->
                                IF b = "ground" THEN Raw("structure")
                                ELSE Raw("None")]
            /\ gjobs' = <<>>
            /\ UNCHANGED <<bulk, next_uuid>>
    /\ pc' = "shrink_expand"
    /\ UNCHANGED <<cfgVars, write_additional_data, raised, flow, eosVars,
                   struct_dict, phonon_yaml_dirs, phonon_imaginary_modes, st_idx,
                   get_gru>>

\* gruneisen.py:111-113: the structure handed to shrink_expand_structure
PerturbedStructure(bulk_uuid) == Ref(bulk_uuid, <<"structure">>)

\* gruneisen.py:110-114: reading the unbound local bulk raises UnboundLocalError
GruShrinkExpand ==
    /\ builder = "gruneisen" /\ pc = "shrink_expand"
    /\ IF bulk = 0
       THEN /\ raised' = "UnboundLocalError"
            /\ pc' = "raised"
            /\ UNCHANGED <<gjobs, struct_dict, next_uuid>>
       ELSE /\ struct_dict' = next_uuid
            /\ gjobs' = Append(gjobs,
                          Job(next_uuid, "shrink_expand_structure",
                              "shrink_expand_structure",
                              [structure |-> PerturbedStructure(bulk),
                               perc_vol |-> Raw("self.perc_vol")]))
            /\ next_uuid' = next_uuid + 1
            /\ pc' = "const_vol"
            /\ UNCHANGED raised
    /\ UNCHANGED <<cfgVars, write_additional_data, flow, eosVars, opt_struct,
                   bulk, phonon_yaml_dirs, phonon_imaginary_modes, st_idx,
                   get_gru>>

\* gruneisen.py:117-119 and 128-130
ConstVolJob(uuid, sd, branch) ==
    Job(uuid, "const_vol_relax_maker", "const_vol_relax_maker",
        [structure |-> Ref(sd, <<branch>>)])

\* gruneisen.py:116-136: constant-volume relaxations of plus, then of minus;
\* calling make on a None maker raises AttributeError
GruConstVol ==
    /\ builder = "gruneisen" /\ pc = "const_vol"
    /\ IF ~gru.const_vol_relax_maker
       THEN /\ raised' = "AttributeError"
            /\ pc' = "raised"
            /\ UNCHANGED <<gjobs, opt_struct, next_uuid>>
       ELSE /\ gjobs' = gjobs \o <<ConstVolJob(next_uuid, struct_dict, "plus"),
                                   ConstVolJob(next_uuid + 1, struct_dict, "minus")>>
            /\ opt_struct' = [opt_struct EXCEPT
                                !["plus"] = Ref(next_uuid, <<"structure">>),
                                !["minus"] = Ref(next_uuid + 1, <<"structure">>)]
            /\ next_uuid' = next_uuid + 2
            /\ pc' = "phonons"
            /\ UNCHANGED raised
    /\ UNCHANGED <<cfgVars, write_additional_data, flow, eosVars, bulk,
                   struct_dict, phonon_yaml_dirs, phonon_imaginary_modes, st_idx,
                   get_gru>>

\* mutant of PhononFilenames: one set of filenames for all three branches
PhononFilenamesWithoutBranch(st) ==
    [filename_phonopy_yaml |-> "phonopy.yaml",
     filename_band_yaml |-> "phonon_band_structure.yaml",
     filename_dos_yaml |-> "phonon_dos.yaml",
     filename_bs |-> "phonon_band_structure.pdf",
     filename_dos |-> "phonon_dos.pdf"]

\* gruneisen.py:148-154: the filenames set on the last job of the phonon flow
PhononFilenames(st) ==
    [filename_phonopy_yaml |-> st \o "_phonopy.yaml",
     filename_band_yaml |-> st \o "_phonon_band_structure.yaml",
     filename_dos_yaml |-> st \o "_phonon_dos.yaml",
     filename_bs |-> st \o "_phonon_band_structure.pdf",
     filename_dos |-> st \o "_phonon_dos.pdf"]

\* gruneisen.py:142-154
PhononJob(uuid, st, struct) ==
    [Job(uuid, "phonon_maker", "phonon_maker", [structure |-> struct])
        EXCEPT !.function_kwargs = PhononFilenames(st)]

\* gruneisen.py:140-158: one iteration of the loop over opt_struct, whose keys
\* are in the order ground, plus, minus (gruneisen.py:99)
GruPhonon ==
    /\ builder = "gruneisen" /\ pc = "phonons"
    /\ st_idx <= Len(Branches)
    /\ LET st == Branches[st_idx]
       IN  IF ~gru.phonon_maker
           THEN /\ raised' = "AttributeError"
                /\ pc' = "raised"
                /\ UNCHANGED <<gjobs, phonon_yaml_dirs, phonon_imaginary_modes,
                               next_uuid, st_idx>>
           ELSE /\ gjobs' = Append(gjobs, PhononJob(next_uuid, st, opt_struct[st]))
                /\ phonon_yaml_dirs' =
                      [phonon_yaml_dirs EXCEPT
                          ![st] = Ref(next_uuid, <<"jobdirs", "taskdoc_run_job_dir">>)]
                /\ phonon_imaginary_modes' =
                      [phonon_imaginary_modes EXCEPT
                          ![st] = Ref(next_uuid, <<"has_imaginary_modes">>)]
                /\ next_uuid' = next_uuid + 1
                /\ st_idx' = st_idx + 1
                /\ UNCHANGED <<pc, raised>>
    /\ UNCHANGED <<cfgVars, write_additional_data, flow, eosVars, opt_struct,
                   bulk, struct_dict, get_gru>>

\* gruneisen.py:160-172
GruExtract ==
    /\ builder = "gruneisen" /\ pc = "phonons"
    /\ st_idx > Len(Branches)
    /\ get_gru' = next_uuid
    /\ gjobs' = Append(gjobs,
                  Job(next_uuid, "compute_gruneisen_param", "compute_gruneisen_param",
                      [code |-> Raw("self.code"),
                       kpath_scheme |-> Raw("self.kpath_scheme"),
                       mesh |-> Raw("self.mesh"),
                       phonopy_yaml_paths_dict |-> phonon_yaml_dirs,
                       structure |-> opt_struct["ground"],
                       symprec |-> Raw("self.symprec"),
                       phonon_imaginary_modes_info |-> phonon_imaginary_modes]))
    /\ next_uuid' = next_uuid + 1
    /\ pc' = "assemble"
    /\ UNCHANGED <<cfgVars, write_additional_data, raised, flow, eosVars,
                   opt_struct, bulk, struct_dict, phonon_yaml_dirs,
                   phonon_imaginary_modes, st_idx>>

\* gruneisen.py:174
GruReturn ==
    /\ builder = "gruneisen" /\ pc = "assemble"
    /\ flow' = [jobs |-> gjobs, output |-> Ref(get_gru, <<>>), name |-> "Flow"]
    /\ pc' = "returned"
    /\ UNCHANGED <<cfgVars, write_additional_data, next_uuid, raised, eosVars,
                   gruVars>>

----------------------------------------------------------------------------
\* the caller calls make() again on the same maker: the locals are fresh, the
\* maker and the makers it holds are the same objects
MakeAgain ==
    /\ pc \in {"returned", "raised"}
    /\ pc' = "start"
    /\ next_uuid' = 1
    /\ raised' = ""
    /\ flow' = EmptyFlow
    /\ jobs' = EmptyJobs
    /\ flow_output' = NoDict
    /\ structure' = Raw("structure")
    /\ prev_dir' = Raw("prev_dir")
    /\ strain_l' = <<>>
    /\ strain_delta' = NaN
    /\ deformation_l' = <<>>
    /\ transformations' = 0
    /\ frame_idx' = 0
    /\ gjobs' = <<>>
    /\ opt_struct' = NoneOfEach
    /\ bulk' = 0
    /\ struct_dict' = 0
    /\ phonon_yaml_dirs' = NoneOfEach
    /\ phonon_imaginary_modes' = NoneOfEach
    /\ st_idx' = 1
    /\ get_gru' = 0
    /\ UNCHANGED <<cfgVars, write_additional_data>>

Next ==
    \/ EosInitialRelax
    \/ EosStrain
    \/ EosApplyStrain
    \/ EosFrame
    \/ EosCollect
    \/ EosPostprocess
    \/ EosReturn
    \/ GruBulkRelax
    \/ GruShrinkExpand
    \/ GruConstVol
    \/ GruPhonon
    \/ GruExtract
    \/ GruReturn
    \/ MakeAgain

Spec == Init /\ [][Next]_vars

----------------------------------------------------------------------------
(* Properties of CommonEosMaker.make *)

EosReturned == builder = "eos" /\ pc = "returned"

\* the frame loop and the collection of outputs are over
EosCollected ==
    builder = "eos" /\ pc \in {"postprocess", "assemble", "returned", "raised"}

\* C1 (as claimed): with a postprocessor of min_data_points = k and
\* number_of_frames < k, make() never returns a Flow and leaves by the
\* configuration error, whatever the other makers are.
C1_RaisesWhenFramesBelowMinPoints ==
    (builder = "eos" /\ eos.postprocessor
        /\ eos.number_of_frames < eos.min_data_points)
    => /\ pc # "returned"
       /\ pc = "raised" => raised = "ValueError"

\* the position the claimed order of C2 gives a job of the flow
ClaimedRank(job) ==
    CASE job.maker = "initial_relax_maker" -> 1
      [] job.maker = "static_maker" /\ job.name = "EOS equilibrium static" -> 2
      [] job.maker = "apply_strain_to_structure" -> 3
      [] job.maker = "postprocessor" -> 5
      [] OTHER -> 4

\* C2 (as claimed): the returned job list is ordered initial relaxation,
\* initial static, perturbation job, per-frame jobs, post-processing job.
C2_ClaimedJobOrder ==
    EosReturned =>
        \A i, j \in DOMAIN flow.jobs :
            i < j => ClaimedRank(flow.jobs[i]) <= ClaimedRank(flow.jobs[j])

\* the names of the jobs of the flow, in the order the code lists them
OrderedNames(self) ==
    LET frames == self.number_of_frames
        equil_relax == IF self.initial_relax_maker
                       THEN <<"EOS equilibrium relaxation">> ELSE <<>>
        equil_static == IF self.initial_relax_maker /\ self.static_maker
                        THEN <<"EOS equilibrium static">> ELSE <<>>
        relaxes == [i \in 1..frames |->
                       "eos_relax_maker deformation " \o ToString(i - 1)]
        statics == IF self.static_maker
                   THEN [i \in 1..frames |-> "static_maker " \o ToString(i - 1)]
                   ELSE <<>>
        post == IF self.postprocessor
                THEN <<self.name \o " postprocessing">> ELSE <<>>
    IN  equil_relax \o relaxes \o equil_static \o statics
        \o <<"apply_strain_to_structure">> \o post

\* C2 (amended): the returned job list is ordered by job type: the initial
\* relaxation (if any), the per-frame relax jobs in frame order, the initial
\* static (if any), the per-frame static jobs in frame order, the
\* strain-perturbation job and last the post-processing job (if any).
C2_JobOrderByType ==
    EosReturned =>
        [i \in DOMAIN flow.jobs |-> flow.jobs[i].name] = OrderedNames(eos)

C2_Witness ==
    /\ EosReturned
    /\ eos.initial_relax_maker /\ eos.static_maker /\ eos.postprocessor
    /\ eos.number_of_frames >= 2
    /\ Len(flow.jobs) = 2 * eos.number_of_frames + 4

\* the mappings of collected outputs: the local flow_output once collected,
\* the argument of the post-processing job, the output of a returned flow
IsMapping(v) == "relax" \in DOMAIN v

AggregatedMappings ==
    (IF EosCollected /\ IsMapping(flow_output) THEN {flow_output} ELSE {})
    \cup (IF builder = "eos" /\ pc \in {"assemble", "returned"}
          THEN {jobs["utility"][i].args.output :
                  i \in {k \in DOMAIN jobs["utility"] :
                            jobs["utility"][k].maker = "postprocessor"}}
          ELSE {})
    \cup (IF EosReturned /\ IsMapping(flow.output) THEN {flow.output} ELSE {})

\* C3: in every aggregated mapping, under relax (and static when configured)
\* the five sequences have one length, the number of jobs of that type:
\* number_of_frames, plus 1 with an initial relaxation.
C3_ParallelSequences ==
    \A m \in AggregatedMappings :
        \A key \in SeqRange(job_types(eos)) :
            /\ key \in DOMAIN m
            /\ \A quantity \in Quantities :
                /\ Len(m[key][quantity]) = Len(jobs[key])
                /\ Len(m[key][quantity]) =
                      eos.number_of_frames
                      + (IF eos.initial_relax_maker THEN 1 ELSE 0)

C3_Witness ==
    /\ EosReturned
    /\ eos.initial_relax_maker /\ eos.static_maker /\ eos.postprocessor
    /\ eos.number_of_frames >= 2
    /\ Cardinality(AggregatedMappings) = 1
    /\ \E m \in AggregatedMappings :
          Len(m["static"]["dir_name"]) = eos.number_of_frames + 1

\* the keys of the flow output the configuration calls for
OutputKeys(self) ==
    {"relax"}
    \cup (IF self.static_maker THEN {"static"} ELSE {})
    \cup (IF self.initial_relax_maker THEN {"initial_relax"} ELSE {})
    \cup (IF self.initial_relax_maker /\ self.static_maker
          THEN {"initial_static"} ELSE {})

\* C4 (as claimed): without a postprocessor the flow output has exactly the
\* keys the configuration calls for and every key maps to the five parallel
\* sequences.
C4_EveryKeyMapsToSequences ==
    (EosReturned /\ ~eos.postprocessor) =>
        /\ DOMAIN flow.output = OutputKeys(eos)
        /\ \A key \in DOMAIN flow.output :
              DOMAIN flow.output[key] = Quantities

\* C4 (amended): without a postprocessor the flow output has exactly the keys
\* the configuration calls for; relax and static map to the five parallel
\* sequences, initial_relax and initial_static map to the two references E0
\* and V0 of the equilibrium job.
C4_OutputKeys ==
    (EosReturned /\ ~eos.postprocessor) =>
        /\ DOMAIN flow.output = OutputKeys(eos)
        /\ \A key \in DOMAIN flow.output :
              IF key \in {"relax", "static"}
              THEN DOMAIN flow.output[key] = Quantities
              ELSE /\ DOMAIN flow.output[key] = {"E0", "V0"}
                   /\ IsRef(flow.output[key]["E0"])
                   /\ IsRef(flow.output[key]["V0"])

C4_Witness ==
    /\ EosReturned /\ ~eos.postprocessor
    /\ eos.initial_relax_maker /\ eos.static_maker
    /\ eos.number_of_frames >= 2
    /\ "initial_static" \in DOMAIN flow.output

\* the strain samples and the deformations are computed
EosStrained == builder = "eos" /\ pc \notin {"start", "strain"}

\* a + i*(b-a)/(N-1) for the 1-based index i+1, written out as one fraction
GridPoint(self, i) ==
    Rat(self.linear_strain[1] * (self.number_of_frames - 1)
            + (i - 1) * (self.linear_strain[2] - self.linear_strain[1]),
        self.number_of_frames - 1)

NearZero(x) == RLess(RAbs(x), ZeroTol)

\* (1+eps)*I
ScaledIdentity(eps) ==
    [r \in 1..3 |-> [c \in 1..3 |->
        IF r = c THEN Num(1, eps) ELSE Num(0, RInt(0))]]

FrameRelaxJobs ==
    SelectSeq(jobs["relax"], LAMBDA job : job.maker = "eos_relax_maker")

\* the deformations reach the one perturbation job in index order, and frame
\* i relaxes the final structure of transformation i
FramesWired ==
    /\ Len(strain_l) = eos.number_of_frames
    /\ Len(jobs["utility"]) >= 1
    /\ jobs["utility"][1].maker = "apply_strain_to_structure"
    /\ \A k \in 2..Len(jobs["utility"]) :
          jobs["utility"][k].maker # "apply_strain_to_structure"
    /\ jobs["utility"][1].args.deformations =
          [i \in 1..eos.number_of_frames |-> ScaledIdentity(strain_l[i])]
    /\ Len(FrameRelaxJobs) = eos.number_of_frames
    /\ \A i \in 1..eos.number_of_frames :
          FrameRelaxJobs[i].args.structure =
              Ref(jobs["utility"][1].uuid, <<ToString(i - 1), "final_structure">>)

\* C5 (as claimed): for N >= 2 frames the N strain samples are
\* a + i*(b-a)/(N-1), the N matrices (1+eps_i)*I go to the one perturbation
\* job in index order, and frame i consumes transformation i.
C5_SamplesAreTheLinearGrid ==
    (EosCollected /\ eos.number_of_frames >= 2) =>
        /\ FramesWired
        /\ \A i \in 1..eos.number_of_frames : strain_l[i] = GridPoint(eos, i)

\* C5 (amended): for N >= 2 frames there are N strain samples; sample i is
\* a + i*(b-a)/(N-1) when no initial relaxation is configured or that value
\* is not within 1e-15 of zero (otherwise it is the shifted value); the N
\* matrices (1+eps_i)*I of the final samples go to the one perturbation job
\* in index order, and frame i consumes transformation i.
C5_SamplesOffZeroAreTheLinearGrid ==
    (EosCollected /\ eos.number_of_frames >= 2) =>
        /\ FramesWired
        /\ \A i \in 1..eos.number_of_frames :
              (~eos.initial_relax_maker \/ ~NearZero(GridPoint(eos, i)))
                  => strain_l[i] = GridPoint(eos, i)

C5_Witness ==
    /\ EosCollected
    /\ eos.number_of_frames = MaxFrames
    /\ eos.linear_strain[1] < eos.linear_strain[2]
    /\ Len(FrameRelaxJobs) = MaxFrames
    /\ strain_l[MaxFrames] = RInt(eos.linear_strain[2])
    /\ \E i \in 1..MaxFrames : strain_l[i] # GridPoint(eos, i)

\* the zero-strain perturbation applies: an initial relaxation, N >= 2
\* frames and a sample of the linear grid within 1e-15 of zero
GridNearZero ==
    {i \in 1..eos.number_of_frames : NearZero(GridPoint(eos, i))}

ZeroStrainCase ==
    /\ EosStrained
    /\ eos.initial_relax_maker
    /\ eos.number_of_frames >= 2
    /\ GridNearZero # {}

\* C6 (as claimed): in the zero-strain case every sample near zero is moved
\* off zero: the final samples hold no zero and are pairwise distinct.
C6_NoZeroAndDistinct ==
    ZeroStrainCase =>
        /\ \A i \in DOMAIN strain_l : strain_l[i] # RInt(0)
        /\ \A i, j \in DOMAIN strain_l : i # j => strain_l[i] # strain_l[j]

RNeg(x) == IF IsNaN(x) THEN NaN ELSE [n |-> -x.n, d |-> x.d]

\* how far the perturbation moved sample i
Displacement(i) == RSub(strain_l[i], GridPoint(eos, i))

\* the samples keep the order of the grid, strictly
OrderKept ==
    \A i \in 1..(eos.number_of_frames - 1) :
        /\ eos.linear_strain[1] < eos.linear_strain[2]
              => RLess(strain_l[i], strain_l[i + 1])
        /\ eos.linear_strain[1] > eos.linear_strain[2]
              => RLess(strain_l[i + 1], strain_l[i])

\* the k-th moved sample from below and the k-th from above move by opposite
\* amounts
DisplacedSymmetrically ==
    \A i, j \in GridNearZero :
        (Cardinality({k \in GridNearZero : k <= i})
            + Cardinality({k \in GridNearZero : k <= j})
         = Cardinality(GridNearZero) + 1)
        => Displacement(i) = RNeg(Displacement(j))

\* a grid symmetric about zero is still symmetric about zero
SymmetryKept ==
    (eos.linear_strain[1] = -eos.linear_strain[2]) =>
        \A i \in 1..eos.number_of_frames :
            strain_l[i] = RNeg(strain_l[eos.number_of_frames + 1 - i])

\* C7 (as claimed): the zero-strain perturbation keeps the order of the
\* samples, displaces the samples near zero symmetrically about zero and
\* keeps a symmetric grid symmetric.
C7_OrderAndSymmetry ==
    ZeroStrainCase => OrderKept /\ DisplacedSymmetrically /\ SymmetryKept

\* C7 (amended): the zero-strain perturbation keeps the strict order of the
\* samples (each perturbed sample stays strictly between its neighbours);
\* when two or more samples are within 1e-15 of zero they are displaced
\* symmetrically about zero and a symmetric grid stays symmetric; a single
\* such sample is moved by minus half a step, to one side only.
C7_OrderKeptSymmetryForSeveral ==
    ZeroStrainCase =>
        /\ OrderKept
        /\ Cardinality(GridNearZero) >= 2
              => DisplacedSymmetrically /\ SymmetryKept
        /\ Cardinality(GridNearZero) = 1
              => \A i \in GridNearZero :
                    Displacement(i)
                        = RNeg(RDiv(StrainDelta(eos), RInt(2)))

C7_Witness ==
    /\ ZeroStrainCase
    /\ eos.linear_strain[1] < 0 /\ eos.linear_strain[2] > 0
    /\ Cardinality(GridNearZero) = 3
    /\ \E i \in GridNearZero : RLess(RInt(0), Displacement(i))
    /\ \E i \in GridNearZero : RLess(Displacement(i), RInt(0))

----------------------------------------------------------------------------
(* Properties of BaseGruneisenMaker.make *)

GruReturned == builder = "gruneisen" /\ pc = "returned"

AllMakers ==
    gru.bulk_relax_maker /\ gru.const_vol_relax_maker /\ gru.phonon_maker

FilenameKeys ==
    {"filename_phonopy_yaml", "filename_band_yaml", "filename_dos_yaml",
     "filename_bs", "filename_dos"}

\* every output filename of the phonon job starts with the branch and "_"
HasPrefix(job, branch) ==
    /\ DOMAIN job.function_kwargs = FilenameKeys
    /\ \E rest \in [FilenameKeys ->
                      {"phonopy.yaml", "phonon_band_structure.yaml",
                       "phonon_dos.yaml", "phonon_band_structure.pdf",
                       "phonon_dos.pdf"}] :
          \A k \in FilenameKeys :
              job.function_kwargs[k] = branch \o "_" \o rest[k]

\* C8: with all three makers the flow holds 8 jobs in construction order
\* (bulk relax, volume perturbation, constant-volume relax of plus and of
\* minus, phonons of ground, plus, minus, extraction), its output is the
\* extraction job's output, and the phonon jobs carry the pairwise distinct
\* prefixes ground_, plus_, minus_ of the branch whose structure they consume.
C8_EightJobsInOrder ==
    (GruReturned /\ AllMakers) =>
        LET js == flow.jobs IN
        /\ Len(js) = 8
        /\ [i \in 1..8 |-> js[i].maker] =
              <<"bulk_relax_maker", "shrink_expand_structure",
                "const_vol_relax_maker", "const_vol_relax_maker",
                "phonon_maker", "phonon_maker", "phonon_maker",
                "compute_gruneisen_param">>
        /\ \A i, j \in 1..8 : i # j => js[i].uuid # js[j].uuid
        /\ js[3].args.structure = Ref(js[2].uuid, <<"plus">>)
        /\ js[4].args.structure = Ref(js[2].uuid, <<"minus">>)
        /\ js[5].args.structure = Ref(js[1].uuid, <<"structure">>)
        /\ js[6].args.structure = Ref(js[3].uuid, <<"structure">>)
        /\ js[7].args.structure = Ref(js[4].uuid, <<"structure">>)
        /\ HasPrefix(js[5], "ground")
        /\ HasPrefix(js[6], "plus")
        /\ HasPrefix(js[7], "minus")
        /\ \A i, j \in 5..7 : \A k \in FilenameKeys :
              i # j => js[i].function_kwargs[k] # js[j].function_kwargs[k]
        /\ flow.output = Ref(js[8].uuid, <<>>)

C8_Witness ==
    /\ GruReturned /\ AllMakers
    /\ Len(flow.jobs) = 8
    /\ flow.jobs[7].function_kwargs["filename_dos"] = "minus_phonon_dos.pdf"

\* C9 (as claimed): without a bulk_relax_maker make() still completes and
\* returns a Flow whose volume-perturbation job consumes the raw input
\* structure; no output of a bulk relaxation that was never built is read.
C9_NoBulkRelaxStillReturns ==
    (builder = "gruneisen" /\ ~gru.bulk_relax_maker
        /\ gru.const_vol_relax_maker /\ gru.phonon_maker) =>
        /\ pc # "raised"
        /\ pc = "returned" =>
              /\ opt_struct["ground"] = Raw("structure")
              /\ \E i \in DOMAIN flow.jobs :
                    /\ flow.jobs[i].maker = "shrink_expand_structure"
                    /\ flow.jobs[i].args.structure = Raw("structure")

----------------------------------------------------------------------------
(* References of a flow *)

\* the references inside a mapping of collected outputs
MappingRefs(m) ==
    UNION {IF key \in {"relax", "static"}
           THEN UNION {SeqRange(m[key][quantity]) : quantity \in DOMAIN m[key]}
           ELSE {m[key][quantity] : quantity \in DOMAIN m[key]}
             : key \in DOMAIN m}

\* the references in a flow output: one reference, or a mapping of them
OutputRefs(output) ==
    IF IsMapping(output) THEN MappingRefs(output) ELSE {output}

\* the values a job takes as arguments that may be references
ArgValues(job) ==
    CASE job.maker = "postprocessor" -> OutputRefs(job.args.output)
      [] job.maker = "apply_strain_to_structure" -> {job.args.structure}
      [] job.maker = "compute_gruneisen_param" ->
            {job.args.structure}
            \cup {job.args.phonopy_yaml_paths_dict[b] : b \in SeqRange(Branches)}
            \cup {job.args.phonon_imaginary_modes_info[b] : b \in SeqRange(Branches)}
      [] OTHER -> {job.args[a] : a \in DOMAIN job.args}

FlowUuids == {flow.jobs[i].uuid : i \in DOMAIN flow.jobs}

FlowRefs ==
    {r \in OutputRefs(flow.output)
           \cup UNION {ArgValues(flow.jobs[i]) : i \in DOMAIN flow.jobs} :
        IsRef(r)}

\* C10: every reference in the output of a returned flow, and every reference
\* a job of the flow takes as input, is to the output of a job of that flow.
C10_NoDanglingReferences ==
    pc = "returned" => \A r \in FlowRefs : r.uuid \in FlowUuids

C10_Witness ==
    /\ EosReturned
    /\ eos.initial_relax_maker /\ eos.static_maker /\ eos.postprocessor
    /\ eos.number_of_frames >= 2
    /\ Cardinality(FlowRefs) > 5 * (eos.number_of_frames + 1)
    /\ \A r \in FlowRefs : r.uuid \in FlowUuids

----------------------------------------------------------------------------
(* Effect of make() on the makers *)

\* C11 (as claimed): make() leaves the state of the injected makers as it
\* was configured, whatever _store_transformation_information is, so no
\* frame and no later call of make() meets state an earlier one has written.
C11_MakersLeftUnchanged == write_additional_data = NoData

\* the frame whose transformation was stored last, -1 when none was
LastStoredFrame ==
    IF builder = "eos" /\ pc = "frames" THEN frame_idx - 1
    ELSE IF EosCollected THEN eos.number_of_frames - 1
    ELSE -1

\* C11 (amended): with _store_transformation_information unset make() leaves
\* the configuration and the state of the injected makers unchanged.  With it
\* set, make() writes one entry, "transformations:json", of
\* eos_relax_maker.write_additional_data (when the maker has that attribute)
\* at every frame: all frames write the same entry, which holds the
\* transformation of the frame handled last and stays in the maker after
\* make() has returned or raised and into the next call of make(); nothing
\* else of the makers is written, and the Grueneisen maker writes nothing.
C11_OnlyTransformationsEntryWritten ==
    /\ DOMAIN write_additional_data \subseteq {"transformations:json"}
    /\ (builder = "gruneisen"
          \/ ~eos.store_transformation_information
          \/ ~eos.has_write_additional_data
          \/ eos.number_of_frames = 0)
          => write_additional_data = NoData
    /\ (builder = "eos" /\ LastStoredFrame >= 0
          /\ eos.store_transformation_information
          /\ eos.has_write_additional_data)
          => write_additional_data["transformations:json"]
                = Ref(jobs["utility"][1].uuid, <<ToString(LastStoredFrame)>>)
    /\ (builder = "eos" /\ pc \in {"start", "strain", "apply_strain"}
          /\ write_additional_data # NoData)
          => write_additional_data["transformations:json"].attributes
                = <<ToString(eos.number_of_frames - 1)>>

\* a second call of make() starts with the entry the first call left
C11_Witness ==
    /\ builder = "eos" /\ pc = "start"
    /\ eos.store_transformation_information
    /\ eos.number_of_frames >= 2
    /\ "transformations:json" \in DOMAIN write_additional_data
    /\ write_additional_data["transformations:json"].attributes
          = <<ToString(eos.number_of_frames - 1)>>

====
